---------------------------- MODULE Spec2Model ----------------------------
(***************************************************************************)
(* Model of the two stateful parts of the Lua/APR binding:                 *)
(*                                                                         *)
(*   - apr.dir_remove_recursive (src/src/io_dir.c, lines 113-226), one     *)
(*     action per collaborator call of lua_apr_dir_remove_recursive, with  *)
(*     every collaborator call free to fail;                               *)
(*   - file:read / file:seek on a buffered file handle                     *)
(*     (src/src/io_file.c, lines 346-350 and 396-439).                     *)
(*                                                                         *)
(* Spec     is the specification of the tree deletion,                     *)
(* SpecFile is the specification of the buffered file handle.              *)
(***************************************************************************)
EXTENDS Integers, Sequences, FiniteSets, TLC

VARIABLES
  \* ---- the file system and lua_apr_dir_remove_recursive's locals
  fs,                 \* set of paths that exist
  fs0,                \* the file system when the call was made
  pc,                 \* position inside lua_apr_dir_remove_recursive
  status,             \* apr_status_t status
  outer_pool,         \* apr_pool_t *outer_pool  (a pool record)
  middle_pool,        \* apr_pool_t *middle_pool
  inner_pool,         \* apr_pool_t *inner_pool
  todo,               \* apr_array_header_t *todo
  done,               \* apr_array_header_t *done
  directory,          \* apr_dir_t *directory: 0 is NULL, else index in handles
  handles,            \* every apr_dir_t the call opened, in order of opening
  filepath,           \* const char *filepath
  info,               \* apr_finfo_t info (name and filetype)
  allocation_counter, \* int allocation_counter
  inner_live,         \* number of paths allocated in inner_pool since its last clear
  first_error,        \* history: status of the first step that failed
  late_ops,           \* history: enumerate/remove calls issued after the first error
  enumerated,         \* history: non-directory entries returned by apr_dir_read
  premature,          \* history: directories whose removal was asked for too early
  \* ---- the buffered file handle
  content,            \* bytes of the underlying file
  os_pos,             \* position of the underlying descriptor (file->handle)
  buf,                \* file->buffer: [data, index, limit]
  refill,             \* when read_buffer refills the buffer (see RefillPolicies)
  ref_pos,            \* the file position as file:seek's documentation defines it
  K,                  \* history: bytes delivered by the reads before the first seek
  out,                \* history: bytes delivered by the reads since the last seek
  raw_reads,          \* history: reads on the descriptor since the last seek
  at_eof,             \* history: a read since the last seek reported end of file
  last_seek,          \* history: the last file:seek call and its result
  prev_seek,          \* history: the file:seek call made right before the last one
  last_op,            \* history: kind of the last operation on the handle
  nops,               \* number of operations on the handle so far
  \* ---- directory and file objects as a Lua program uses them
  dirobj,             \* lua_apr_dir: handle, memory_pool and what happened to them
  fileobj,            \* lua_apr_file: handle, memory_pool and what happened to them
  paths,              \* the file paths that exist
  call,               \* history: the last call of the program and its outcome
  napi                \* number of calls made so far

tvars == <<fs, fs0, pc, status, outer_pool, middle_pool, inner_pool, todo, done,
           directory, handles, filepath, info, allocation_counter, inner_live,
           first_error, late_ops, enumerated, premature>>

fvars == <<content, os_pos, buf, refill, ref_pos, K, out, raw_reads, at_eof, last_seek,
           prev_seek, last_op, nops>>

avars == <<dirobj, fileobj, paths, call, napi>>

vars == <<tvars, fvars, avars>>

-----------------------------------------------------------------------------
(* Bounds of the model.                                                    *)

MaxFiles == 2        \* plain files directly under the root: f1 .. fMaxFiles
FileLen == 4         \* the file of the buffered handle holds 0 .. FileLen bytes
BufSize == 2         \* capacity of the handle's buffer
MaxRead == 2         \* file:read(n) is called with n in 1 .. MaxRead
MaxOff == 1          \* file:seek offsets lie in -MaxOff .. MaxOff
MaxOps == 3          \* operations made on one handle
MaxCalls == 4        \* calls made on the directory and file objects
MaxAllocations == 2100  \* entries removed in a run over large directories

-----------------------------------------------------------------------------
(* The file system: a path is a sequence of names.                         *)

Root == <<"r">>
Outside == <<"o">>

RootFiles == { <<"r", "f" \o ToString(i)>> : i \in 1..MaxFiles }

InsideDirs == { <<"r">>, <<"r", "a">>, <<"r", "b">>, <<"r", "a", "c">> }
InsideFiles == RootFiles \cup { <<"r", "a", "d">>, <<"r", "a", "c", "g">> }
InsideLinks == { <<"r", "l">> }       \* a symbolic link to the directory Outside
OutsideNodes == { <<"o">>, <<"o", "x">> }

Universe == InsideDirs \cup InsideFiles \cup InsideLinks \cup OutsideNodes

FileType(p) ==
  IF p \in InsideDirs \cup {Outside} THEN "APR_DIR"
  ELSE IF p \in InsideLinks THEN "APR_LNK"
  ELSE "APR_REG"

Parent(p) == SubSeq(p, 1, Len(p) - 1)
Name(p) == p[Len(p)]
IsPrefix(p, q) == Len(p) <= Len(q) /\ SubSeq(q, 1, Len(p)) = p
Children(d, S) == { q \in S : Len(q) = Len(d) + 1 /\ Parent(q) = d }
Under(d, S) == { q \in S : IsPrefix(d, q) }

\* The trees delete_tree can be called on: every node has its parent.
Trees ==
  { T \in SUBSET (Universe \ OutsideNodes) :
      \A p \in T : p = Root \/ Parent(p) \in T }


-----------------------------------------------------------------------------
(* Status codes.                                                           *)

APR_SUCCESS == "APR_SUCCESS"
APR_INCOMPLETE == "APR_INCOMPLETE"
APR_ENOMEM == "APR_ENOMEM"
APR_ENOENT == "APR_ENOENT"

\* A step has failed when its status is none of these.
IsError(st) == st \notin {APR_SUCCESS, APR_INCOMPLETE}

-----------------------------------------------------------------------------
(* Memory pools and directory handles.                                     *)

NullPool == [ptr |-> "NULL", created |-> 0, destroyed |-> 0]

\* apr_pool_create(&pool, NULL): on failure the pointer stays NULL.
apr_pool_create(p, ok) ==
  IF ok THEN [p EXCEPT !.ptr = "set", !.created = @ + 1] ELSE p

\* if (pool != NULL) apr_pool_destroy(pool);
DestroyIfSet(p) ==
  IF p.ptr # "NULL" THEN [p EXCEPT !.destroyed = @ + 1] ELSE p

\* Clearing or destroying the pool of a directory handle runs the cleanup
\* that apr_dir_open registered in it: a handle still open is closed, and its
\* memory is gone with the pool (swept).
RunCleanups(hs) ==
  [i \in DOMAIN hs |->
     IF hs[i].open
     THEN [hs[i] EXCEPT !.open = FALSE, !.closes = @ + 1, !.swept = TRUE]
     ELSE hs[i]]

\* apr_dir_close(handle): the handle is released and its cleanup is killed.
CloseHandle(hs, h) ==
  [hs EXCEPT ![h] = [@ EXCEPT !.open = FALSE, !.closes = @ + 1]]

\* The entries apr_dir_read will return for a directory opened on d.
Entries(d, S) == {".", ".."} \cup { Name(q) : q \in Children(d, S) }

\* filename_symbolic(name): the self and parent entries.
filename_symbolic(name) == name \in {".", ".."}

\* apr_filepath_merge(&tmp, filepath, info.name, 0, pool)
apr_filepath_merge(base, name) == Append(base, name)

-----------------------------------------------------------------------------
(* The decisions lua_apr_dir_remove_recursive takes.                       *)

\* line 137: if (APR_SUCCESS != status) goto cleanup;
\* (PoolsFailed_inverted: the test written the wrong way round)
PoolsFailed_inverted(st) == st = APR_SUCCESS
PoolsFailed(st) == st # APR_SUCCESS

\* line 157: top = apr_array_pop(todo)
NextTodo(arr) == Len(arr)

\* line 205: top = apr_array_pop(done)
\* (NextDone_first: done taken from its front, as a queue)
NextDone_first(arr) == 1
NextDone(arr) == Len(arr)

\* line 173: APR_STATUS_IS_ENOENT(status)
NoMoreEntries(st) == st = APR_ENOENT

\* line 175: status != APR_SUCCESS && status != APR_INCOMPLETE
ReadFailed(st) == st # APR_SUCCESS /\ st # APR_INCOMPLETE

\* line 179: info.filetype == APR_DIR
\* (IsSubdirectory_links: a symbolic link taken for a subdirectory as well)
IsSubdirectory_links(i) == i.filetype \in {"APR_DIR", "APR_LNK"}
IsSubdirectory(i) == i.filetype = "APR_DIR"

\* line 169: allocation_counter % 1000 == 0
\* (InnerClearDue_never: the pool never cleared)
InnerClearPeriod == 1000
InnerClearDue_never(n) == FALSE
InnerClearDue(n) == n % 1000 = 0

\* line 191: if (APR_SUCCESS != status) goto cleanup;
\* (RemoveFailed_ignored: the status of apr_file_remove not looked at)
RemoveFailed_ignored(st) == FALSE
RemoveFailed(st) == st # APR_SUCCESS

\* line 196: directory = NULL;
\* (AfterClose_kept: the assignment left out)
AfterClose_kept(h) == h
AfterClose(h) == 0

\* lines 197-198: if (status != APR_SUCCESS) goto cleanup;
\* (CloseFailed_ignored: the status of apr_dir_close not looked at)
CloseFailed_ignored(st) == FALSE
CloseFailed(st) == st # APR_SUCCESS

\* line 199: push_filepath(done, filepath);
\* (PushDone_lost: the path never stored in done)
PushDone_lost(arr, path) == arr
PushDone(arr, path) == Append(arr, path)

\* line 210: if (status != APR_SUCCESS) goto cleanup;
\* (DirRemoveFailed_ignored: the status of apr_dir_remove not looked at)
DirRemoveFailed_ignored(st) == FALSE
DirRemoveFailed(st) == st # APR_SUCCESS

\* lines 216-217: if (directory != NULL) apr_dir_close(directory);
\* (CleanupCloses_never: the pools destroyed without closing the directory)
CleanupCloses_never(h) == FALSE
CleanupCloses(h) == h # 0

\* line 207: allocation_counter++ % 100 == 0
MiddleClearDue(n) == n % 100 = 0

\* lines 157, 205: apr_array_pop takes the element out of the array.
\* (Without_kept: the popped element left in the array)
Without_kept(arr, i) == arr
Without(arr, i) == SubSeq(arr, 1, i - 1) \o SubSeq(arr, i + 1, Len(arr))

-----------------------------------------------------------------------------
(* Initial state: the call apr.dir_remove_recursive(Root) on some tree,    *)
(* locals as set by lines 127-130.                                         *)

\* No file:seek call has been made.
NoSeek ==
  [mode |-> "none", offset |-> 0, fault |-> 0, ok |-> FALSE,
   refused |-> FALSE, pos |-> 0, first |-> FALSE, pre_os |-> 0, pre_index |-> 0, pre_limit |-> 0]

\* A handle as lua_apr_file_open leaves it (init_buffer): nothing buffered.
FreshHandle ==
  /\ os_pos = 0 /\ buf = [data |-> <<>>, index |-> 0, limit |-> 0]
  /\ ref_pos = 0 /\ K = 0 /\ out = <<>> /\ raw_reads = 0 /\ at_eof = FALSE
  /\ last_seek = NoSeek /\ prev_seek = NoSeek /\ last_op = "open" /\ nops = 0

\* No directory object has been made (before apr.dir_open).
NoDir ==
  [made |-> FALSE, handle |-> FALSE, pool_created |-> 0, closes |-> 0,
   destroys |-> 0, collected |-> FALSE]

\* A file object as lua_apr_file_open returns it: handle set, pool alive.
OpenFile == [handle |-> TRUE, closes |-> 0, destroys |-> 0, collected |-> FALSE]

\* No call has been made.
NoCall ==
  [op |-> "none", raised |-> "none", result |-> "none", platform |-> 0,
   dir_before |-> NoDir, file_before |-> OpenFile,
   source |-> "", target |-> "", from |-> "", to |-> ""]

ApiIdle ==
  /\ dirobj = NoDir /\ fileobj = OpenFile /\ paths = {}
  /\ call = NoCall /\ napi = 0

\* The tree deletion takes no part in a run of the file handle, and conversely.
FileIdle == content = <<>> /\ refill = "when_used_up" /\ FreshHandle

Init ==
  /\ \E T \in Trees : fs = T \cup OutsideNodes
  /\ fs0 = fs
  /\ pc = "create_pools"
  /\ status = APR_SUCCESS
  /\ outer_pool = NullPool /\ middle_pool = NullPool /\ inner_pool = NullPool
  /\ todo = <<>> /\ done = <<>>
  /\ directory = 0
  /\ handles = <<>>
  /\ filepath = Root
  /\ info = [name |-> "", filetype |-> "APR_NOFILE"]
  /\ allocation_counter = 0
  /\ inner_live = 0
  /\ first_error = "none"
  /\ late_ops = FALSE
  /\ enumerated = {}
  /\ premature = {}
  /\ FileIdle
  /\ ApiIdle

\* Bookkeeping of a step that returned st.
Noted(st) == IF first_error = "none" /\ IsError(st) THEN st ELSE first_error


-----------------------------------------------------------------------------
(* lua_apr_dir_remove_recursive, one action per collaborator call.         *)

\* lines 132-138: create the three pools; the first failure stops the chain.
\* failing = 0: all succeed; failing = i: the i-th apr_pool_create fails.
CreatePools ==
  /\ pc = "create_pools"
  /\ \E failing \in 0..3 :
       LET st == IF failing = 0 THEN APR_SUCCESS ELSE APR_ENOMEM IN
       /\ outer_pool' = apr_pool_create(outer_pool, failing # 1)
       /\ middle_pool' = IF failing = 1 THEN middle_pool
                         ELSE apr_pool_create(middle_pool, failing # 2)
       /\ inner_pool' = IF failing \in {1, 2} THEN inner_pool
                        ELSE apr_pool_create(inner_pool, failing # 3)
       /\ status' = st
       /\ first_error' = Noted(st)
       /\ pc' = IF PoolsFailed(st) THEN "cleanup" ELSE "make_arrays"
  /\ UNCHANGED <<fs, fs0, todo, done, directory, handles, filepath, info,
                 allocation_counter, inner_live, late_ops, enumerated, premature, fvars, avars>>

\* lines 150-155: make the two arrays and push the root path.
\* Either apr_array_make or the apr_array_push may report out of memory.
MakeArrays ==
  /\ pc = "make_arrays"
  /\ \E oom \in {"none", "make", "push"} :
       /\ todo' = IF oom = "none" THEN <<filepath>> ELSE <<>>
       /\ status' = IF oom = "none" THEN status ELSE APR_ENOMEM
       /\ first_error' = IF oom = "none" THEN first_error ELSE Noted(APR_ENOMEM)
       /\ pc' = IF oom = "none" THEN "pop_todo" ELSE "cleanup"
  /\ done' = <<>>
  /\ UNCHANGED <<fs, fs0, outer_pool, middle_pool, inner_pool, directory, handles,
                 filepath, info, allocation_counter, inner_live, late_ops, enumerated, premature, fvars, avars>>

\* apr_dir_open(&directory, path, middle_pool): the statuses it can return.
OpenOutcomes(path) ==
  IF path \notin fs THEN {APR_ENOENT}
  ELSE IF FileType(path) # "APR_DIR" THEN {"ENOTDIR"}
  ELSE {APR_SUCCESS, "EACCES"}

\* lines 157-164: pop the next directory, clear middle_pool, open it.
\* With todo empty the first loop ends and the second one starts (line 205).
PopTodo ==
  /\ pc = "pop_todo"
  /\ IF todo = <<>>
     THEN /\ pc' = "pop_done"
          /\ UNCHANGED <<todo, filepath, handles, directory, status, first_error,
                         late_ops>>
     ELSE LET i == NextTodo(todo)
              path == todo[i]
              cleared == RunCleanups(handles) IN
          /\ filepath' = path
          /\ todo' = Without(todo, i)
          /\ late_ops' = (late_ops \/ first_error # "none")
          /\ \E st \in OpenOutcomes(path) :
               /\ status' = st
               /\ first_error' = Noted(st)
               /\ IF st = APR_SUCCESS
                  THEN /\ handles' = Append(cleared,
                                       [path |-> path, pending |-> Entries(path, fs),
                                        open |-> TRUE, closes |-> 0,
                                        swept |-> FALSE])
                       /\ directory' = Len(cleared) + 1
                       /\ pc' = "dir_read"
                  ELSE /\ handles' = cleared
                       /\ directory' = 0
                       /\ pc' = "cleanup"
  /\ UNCHANGED <<fs, fs0, outer_pool, middle_pool, inner_pool, done, info,
                 allocation_counter, inner_live, enumerated, premature, fvars, avars>>

\* The type apr_dir_read finds for entry n of the directory opened by h.
EntryType(h, n) ==
  IF n \in {".", ".."} THEN "APR_DIR" ELSE FileType(Append(h.path, n))

\* apr_dir_read(&info, NAME|TYPE|LINK, directory): what it can return.
\* APR_INCOMPLETE comes with the type of the entry known or unknown.
ReadOutcomes(h) ==
  IF h.pending = {}
  THEN { [st |-> APR_ENOENT, name |-> "", filetype |-> "APR_NOFILE"] }
  ELSE { [st |-> "EIO", name |-> "", filetype |-> "APR_NOFILE"] }
       \cup { [st |-> APR_SUCCESS, name |-> n, filetype |-> EntryType(h, n)] :
                n \in h.pending }
       \cup { [st |-> APR_INCOMPLETE, name |-> n, filetype |-> EntryType(h, n)] :
                n \in h.pending }
       \cup { [st |-> APR_INCOMPLETE, name |-> n, filetype |-> "APR_NOFILE"] :
                n \in h.pending }

\* lines 165-179: one turn of the for loop up to the classification of the entry.
DirRead ==
  /\ pc = "dir_read"
  /\ late_ops' = (late_ops \/ first_error # "none")
  /\ \E r \in ReadOutcomes(handles[directory]) :
       /\ status' = r.st
       /\ IF NoMoreEntries(r.st)
          THEN /\ pc' = "dir_close"
               /\ UNCHANGED <<info, handles, first_error, enumerated>>
          ELSE IF ReadFailed(r.st)
          THEN /\ pc' = "cleanup"
               /\ first_error' = Noted(r.st)
               /\ UNCHANGED <<info, handles, enumerated>>
          ELSE LET i == [name |-> r.name, filetype |-> r.filetype] IN
               /\ info' = i
               /\ handles' = [handles EXCEPT ![directory].pending = @ \ {r.name}]
               /\ first_error' = first_error
               /\ IF filename_symbolic(r.name)
                  THEN pc' = "dir_read" /\ UNCHANGED enumerated
                  ELSE IF IsSubdirectory(i)
                  THEN pc' = "recurse" /\ UNCHANGED enumerated
                  ELSE /\ pc' = "remove_entry"
                       /\ enumerated' = enumerated \cup {Append(filepath, r.name)}
  /\ inner_live' = IF InnerClearDue(allocation_counter) THEN 0 ELSE inner_live
  /\ UNCHANGED <<fs, fs0, outer_pool, middle_pool, inner_pool, todo, done, directory,
                 filepath, allocation_counter, premature, fvars, avars>>

\* lines 181-184: merge the subdirectory's path in outer_pool and push it on todo.
Recurse ==
  /\ pc = "recurse"
  /\ \E st \in {APR_SUCCESS, "ENAMETOOLONG", APR_ENOMEM} :
       /\ status' = st
       /\ first_error' = Noted(st)
       /\ IF st = APR_SUCCESS
          THEN /\ todo' = Append(todo, apr_filepath_merge(filepath, info.name))
               /\ pc' = "dir_read"
          ELSE /\ pc' = "cleanup"
               /\ UNCHANGED todo
  /\ UNCHANGED <<fs, fs0, outer_pool, middle_pool, inner_pool, done, directory,
                 handles, filepath, info, allocation_counter, inner_live, late_ops, enumerated,
                 premature, fvars, avars>>

\* apr_file_remove(path, inner_pool): the statuses it can return.
FileRemoveOutcomes(path) ==
  IF path \notin fs THEN {APR_ENOENT}
  ELSE IF FileType(path) = "APR_DIR" THEN {"EISDIR"}
  ELSE {APR_SUCCESS, "EPERM"}

\* lines 187-192: merge the entry's path in inner_pool and remove the entry.
RemoveEntry ==
  /\ pc = "remove_entry"
  /\ allocation_counter' = allocation_counter + 1
  /\ \/ \* apr_filepath_merge fails: apr_file_remove is not called
        /\ status' = "ENAMETOOLONG"
        /\ first_error' = Noted("ENAMETOOLONG")
        /\ pc' = "cleanup"
        /\ UNCHANGED <<fs, late_ops, inner_live>>
     \/ LET tmp == apr_filepath_merge(filepath, info.name) IN
        \E st \in FileRemoveOutcomes(tmp) :
          /\ status' = st
          /\ first_error' = Noted(st)
          /\ late_ops' = (late_ops \/ first_error # "none")
          /\ inner_live' = inner_live + 1
          /\ fs' = IF st = APR_SUCCESS THEN fs \ {tmp} ELSE fs
          /\ pc' = IF RemoveFailed(st) THEN "cleanup" ELSE "dir_read"
  /\ UNCHANGED <<fs0, outer_pool, middle_pool, inner_pool, todo, done, directory,
                 handles, filepath, info, enumerated, premature, fvars, avars>>

\* lines 195-199: close the enumerator, forget it, push the path on done.
DirClose ==
  /\ pc = "dir_close"
  /\ handles' = CloseHandle(handles, directory)
  /\ directory' = AfterClose(directory)
  /\ \E st \in {APR_SUCCESS, "EBADF", APR_ENOMEM} :
       /\ status' = st
       /\ first_error' = Noted(st)
       /\ IF CloseFailed(st)
          THEN UNCHANGED done /\ pc' = "cleanup"
          ELSE done' = PushDone(done, filepath) /\ pc' = "pop_todo"
  /\ UNCHANGED <<fs, fs0, outer_pool, middle_pool, inner_pool, todo, filepath, info,
                 allocation_counter, inner_live, late_ops, enumerated, premature, fvars, avars>>

\* apr_dir_remove(path, middle_pool): the statuses it can return.
DirRemoveOutcomes(path) ==
  IF path \notin fs THEN {APR_ENOENT}
  ELSE IF Children(path, fs) # {} THEN {"ENOTEMPTY"}
  ELSE {APR_SUCCESS, "EBUSY"}

\* lines 205-212: pop a completed directory and remove it.
PopDone ==
  /\ pc = "pop_done"
  /\ IF done = <<>>
     THEN /\ pc' = "cleanup"
          /\ UNCHANGED <<done, filepath, allocation_counter, handles, status,
                         first_error, late_ops, fs, premature>>
     ELSE LET i == NextDone(done)
              path == done[i] IN
          /\ filepath' = path
          /\ done' = Without(done, i)
          /\ allocation_counter' = allocation_counter + 1
          /\ handles' = IF MiddleClearDue(allocation_counter)
                        THEN RunCleanups(handles) ELSE handles
          /\ late_ops' = (late_ops \/ first_error # "none")
          /\ premature' = IF Under(path, fs) \ {path} # {}
                          THEN premature \cup {path} ELSE premature
          /\ \E st \in DirRemoveOutcomes(path) :
               /\ status' = st
               /\ first_error' = Noted(st)
               /\ fs' = IF st = APR_SUCCESS THEN fs \ {path} ELSE fs
               /\ pc' = IF DirRemoveFailed(st) THEN "cleanup" ELSE "pop_done"
  /\ UNCHANGED <<fs0, outer_pool, middle_pool, inner_pool, todo, directory, info,
                 inner_live, enumerated, fvars, avars>>

\* lines 214-225: close a directory left open, destroy the pools, return status.
Cleanup ==
  /\ pc = "cleanup"
  /\ handles' = IF CleanupCloses(directory)
                THEN RunCleanups(CloseHandle(handles, directory))
                ELSE RunCleanups(handles)
  /\ inner_pool' = DestroyIfSet(inner_pool)
  /\ middle_pool' = DestroyIfSet(middle_pool)
  /\ outer_pool' = DestroyIfSet(outer_pool)
  /\ pc' = "done"
  /\ UNCHANGED <<fs, fs0, status, todo, done, directory, filepath, info,
                 allocation_counter, inner_live, first_error, late_ops, enumerated, premature, fvars, avars>>

Next ==
  \/ CreatePools
  \/ MakeArrays
  \/ PopTodo
  \/ DirRead
  \/ Recurse
  \/ RemoveEntry
  \/ DirClose
  \/ PopDone
  \/ Cleanup

Spec == Init /\ [][Next]_vars


-----------------------------------------------------------------------------
(* The buffered file handle: file:read and file:seek.                      *)

Min(a, b) == IF a < b THEN a ELSE b

\* The underlying file holds the bytes 1, 2, ..., n: every byte tells its offset.
Bytes(n) == [i \in 1..n |-> i]

\* apr_file_read(handle, buffer, &len) with room for BufSize bytes: the bytes
\* of the file from position pos on, none at or after the end of the file.
RawRead(pos) == SubSeq(content, pos + 1, Min(pos + BufSize, Len(content)))

\* read_buffer lies outside this source tree and its description leaves open
\* when the buffer is refilled: only once every buffered byte is consumed
\* ("when_used_up"), or as soon as fewer bytes are buffered than the read asks
\* for, the unread rest being kept in front of the new bytes ("keep_rest").
RefillPolicies == {"when_used_up", "keep_rest"}

\* One refill: the unread rest moves to the front of the buffer, the bytes read
\* from the descriptor follow it, index = 0, the descriptor just past them.
Fill(st) ==
  LET rest == SubSeq(st.buf.data, st.buf.index + 1, st.buf.limit)
      got == RawRead(st.pos) IN
  [st EXCEPT !.buf = [data |-> rest \o got, index |-> 0,
                      limit |-> Len(rest) + Len(got)],
             !.pos = st.pos + Len(got),
             !.raw = st.raw + 1,
             !.eof = (Len(got) = 0)]

\* read_buffer: deliver `need` bytes from the buffer, refilling it from the
\* descriptor, until the bytes are delivered or the file ends.
RECURSIVE ReadLoop(_, _)
ReadLoop(st, need) ==
  LET avail == st.buf.limit - st.buf.index IN
  IF need = 0 \/ (st.eof /\ avail = 0) THEN st
  ELSE IF avail >= need \/ (avail > 0 /\ (refill = "when_used_up" \/ st.eof))
  THEN LET take == Min(need, avail) IN
       ReadLoop([st EXCEPT !.out = @ \o SubSeq(st.buf.data, st.buf.index + 1,
                                               st.buf.index + take),
                           !.buf.index = @ + take],
                need - take)
  ELSE ReadLoop(Fill(st), need)

\* More bytes than any read to the end of the file can deliver.
ToEndOfFile == FileLen + BufSize + 1

\* file:read(n), and file:read("*a") as n = ToEndOfFile  (lines 346-350)
ReadBuffer(n) ==
  LET st == ReadLoop([buf |-> buf, pos |-> os_pos, out |-> <<>>, raw |-> 0,
                      eof |-> FALSE], n) IN
  /\ buf' = st.buf
  /\ os_pos' = st.pos
  /\ out' = out \o st.out
  /\ raw_reads' = raw_reads + st.raw
  /\ at_eof' = (at_eof \/ st.eof)
  /\ K' = IF last_seek = NoSeek THEN K + Len(st.out) ELSE K
  /\ ref_pos' = IF ref_pos < Len(content)
                THEN Min(ref_pos + n, Len(content)) ELSE ref_pos
  /\ last_op' = "read"
  /\ nops' = nops + 1
  /\ UNCHANGED <<content, refill, last_seek, prev_seek, tvars, avars>>

FileRead ==
  /\ nops < MaxOps
  /\ \E n \in 1..MaxRead : ReadBuffer(n)

FileReadAll ==
  /\ nops < MaxOps
  /\ ReadBuffer(ToEndOfFile)

\* apr_file_seek(handle, where, &offset) on an unbuffered APR file: the
\* position lseek moves the descriptor to; a negative one is refused.
SeekTarget(where, offset, pos) ==
  IF where = "set" THEN offset
  ELSE IF where = "cur" THEN pos + offset
  ELSE Len(content) + offset

\* line 415: start_of_buf = end_of_buf - file->buffer.limit;
StartOfBuf(end_of_buf, b) == end_of_buf - b.limit

\* line 420: the base of a 'cur' seek, start_of_buf + file->buffer.index
\* (CurrentBase_raw: the descriptor's own position taken as the base)
CurrentBase_raw(end_of_buf, b) == end_of_buf
CurrentBase(end_of_buf, b) == StartOfBuf(end_of_buf, b) + b.index

\* line 429: offset >= start_of_buf && offset <= end_of_buf
\* (InWindow_open: the end of the window taken as outside;
\*  InWindow_always: the test left out, every position taken as inside)
InWindow_always(offset, start_of_buf, end_of_buf) == TRUE
InWindow_open(offset, start_of_buf, end_of_buf) ==
  offset >= start_of_buf /\ offset < end_of_buf
InWindow(offset, start_of_buf, end_of_buf) ==
  offset >= start_of_buf /\ offset <= end_of_buf

\* lines 428-434: adjust the buffer index or invalidate the buffered input.
\* (AdjustBuffer_stale: the else branch rewinds the index and keeps the limit)
AdjustBuffer_stale(b, offset, start_of_buf, end_of_buf) ==
  IF InWindow(offset, start_of_buf, end_of_buf)
  THEN [b EXCEPT !.index = offset - start_of_buf]
  ELSE [b EXCEPT !.index = 0]
AdjustBuffer(b, offset, start_of_buf, end_of_buf) ==
  IF InWindow(offset, start_of_buf, end_of_buf)
  THEN [b EXCEPT !.index = offset - start_of_buf]
  ELSE [b EXCEPT !.index = 0, !.limit = 0]

\* lines 413-414 and 425-426: if (status != APR_SUCCESS) return
\* push_error_status(L, status);  ok = neither apr_file_seek call failed.
\* (ReturnsEarly_never: the status is not looked at)
ReturnsEarly_never(ok) == FALSE
ReturnsEarly(ok) == ~ok

\* file:seek(whence, offset)  (lines 396-439).
\* fault = 1: the position query of line 412 fails; fault = 2: the seek of
\* line 424 fails; fault = 0: the platform refuses only a negative position.
\* A failed apr_file_seek leaves -1 in its offset argument.
Seek(whence, off, fault) ==
  LET end_of_buf == os_pos
      start_of_buf == StartOfBuf(end_of_buf, buf)
      mode == IF whence = "cur" THEN "set" ELSE whence
      offset == IF whence = "cur" THEN off + CurrentBase(end_of_buf, buf) ELSE off
      target == SeekTarget(mode, offset, os_pos)
      ok == fault = 0 /\ target >= 0
      ideal == SeekTarget(whence, off, ref_pos)
  IN
  /\ os_pos' = IF ok THEN target ELSE os_pos
  /\ buf' = IF ReturnsEarly(ok) THEN buf
            ELSE AdjustBuffer(buf, IF ok THEN target ELSE 0 - 1,
                              start_of_buf, end_of_buf)
  /\ last_seek' = [mode |-> whence, offset |-> off, fault |-> fault,
                   ok |-> ~ReturnsEarly(ok), refused |-> ~ok,
                   pos |-> IF ok THEN target ELSE 0,
                   first |-> (last_seek = NoSeek),
                   pre_os |-> os_pos, pre_index |-> buf.index,
                   pre_limit |-> buf.limit]
  /\ prev_seek' = IF last_op = "seek" THEN last_seek ELSE NoSeek
  /\ ref_pos' = IF fault = 0 /\ ideal >= 0 THEN ideal ELSE ref_pos
  /\ out' = <<>>
  /\ raw_reads' = 0
  /\ at_eof' = FALSE
  /\ last_op' = "seek"
  /\ nops' = nops + 1
  /\ UNCHANGED <<content, refill, K, tvars, avars>>

\* The offsets tried with each whence.
Offsets(whence) ==
  IF whence = "set" THEN 0..MaxOff
  ELSE IF whence = "cur" THEN (0 - MaxOff)..MaxOff
  ELSE (0 - MaxOff)..0

FileSeek ==
  /\ nops < MaxOps
  /\ \E whence \in {"set", "cur", "end"} :
       \E off \in Offsets(whence) :
         \E fault \in 0..2 : Seek(whence, off, fault)

TreeIdle ==
  /\ fs = {} /\ fs0 = {} /\ pc = "idle" /\ status = APR_SUCCESS
  /\ outer_pool = NullPool /\ middle_pool = NullPool /\ inner_pool = NullPool
  /\ todo = <<>> /\ done = <<>> /\ directory = 0 /\ handles = <<>>
  /\ filepath = Root /\ info = [name |-> "", filetype |-> "APR_NOFILE"]
  /\ allocation_counter = 0 /\ inner_live = 0
  /\ first_error = "none" /\ late_ops = FALSE /\ enumerated = {} /\ premature = {}

\* A handle just opened on a file of 0 .. FileLen bytes.
FileInit ==
  /\ \E n \in 0..FileLen : content = Bytes(n)
  /\ refill \in RefillPolicies
  /\ FreshHandle
  /\ TreeIdle
  /\ ApiIdle

FileNext ==
  \/ FileRead
  \/ FileReadAll
  \/ FileSeek

SpecFile == FileInit /\ [][FileNext]_vars

-----------------------------------------------------------------------------
(* The for loop of lines 165-193 over directories of any size: only the    *)
(* kind of each entry apr_dir_read returns is kept, not the file system.   *)

\* The first directory has just been opened (line 160).
LargeInit ==
  /\ fs = {} /\ fs0 = {} /\ pc = "dir_read" /\ status = APR_SUCCESS
  /\ outer_pool = apr_pool_create(NullPool, TRUE)
  /\ middle_pool = apr_pool_create(NullPool, TRUE)
  /\ inner_pool = apr_pool_create(NullPool, TRUE)
  /\ todo = <<>> /\ done = <<>> /\ directory = 0 /\ handles = <<>>
  /\ filepath = Root /\ info = [name |-> "", filetype |-> "APR_NOFILE"]
  /\ allocation_counter = 0 /\ inner_live = 0
  /\ first_error = "none" /\ late_ops = FALSE /\ enumerated = {} /\ premature = {}
  /\ FileIdle
  /\ ApiIdle

\* lines 165-185: the top of one turn of the loop and the entry read in it.
\* "file": an entry for lines 187-192; "other": '.', '..' or a subdirectory
\* pushed on todo; "next": the end of this directory, the loop entered again
\* for the next directory popped from todo.
LargeDirRead ==
  /\ pc = "dir_read"
  /\ inner_live' = IF InnerClearDue(allocation_counter) THEN 0 ELSE inner_live
  /\ \E kind \in {"file", "other", "next"} :
       pc' = IF kind = "file" THEN "remove_entry" ELSE "dir_read"
  /\ UNCHANGED <<fs, fs0, status, outer_pool, middle_pool, inner_pool, todo, done,
                 directory, handles, filepath, info, allocation_counter,
                 first_error, late_ops, enumerated, premature, fvars, avars>>

\* lines 187-192: the path of the entry is allocated in inner_pool, unless
\* apr_filepath_merge fails, and the counter goes up either way.
LargeRemoveEntry ==
  /\ pc = "remove_entry"
  /\ allocation_counter < MaxAllocations
  /\ allocation_counter' = allocation_counter + 1
  /\ \E st \in {APR_SUCCESS, "ENAMETOOLONG", "EPERM"} :
       /\ status' = st
       /\ first_error' = Noted(st)
       /\ inner_live' = IF st = "ENAMETOOLONG" THEN inner_live ELSE inner_live + 1
       /\ pc' = IF RemoveFailed(st) THEN "cleanup" ELSE "dir_read"
  /\ UNCHANGED <<fs, fs0, outer_pool, middle_pool, inner_pool, todo, done,
                 directory, handles, filepath, info, late_ops, enumerated,
                 premature, fvars, avars>>

LargeNext ==
  \/ LargeDirRead
  \/ LargeRemoveEntry

SpecLarge == LargeInit /\ [][LargeNext]_vars

-----------------------------------------------------------------------------
(* Directory and file objects in the hands of a Lua program: open, use,    *)
(* close, collect; and the functions that take a source and a target path. *)

\* checkdir(L, idx, check_open), lines 265-273: luaL_error on a closed handle.
\* (checkdir_lax: the handle is not looked at)
checkdir_lax(object, check_open) == "pass"
checkdir(object, check_open) ==
  IF check_open /\ ~object.handle THEN "raise" ELSE "pass"

\* file_check(L, i, open), lines 534-540: luaL_error on a closed handle.
\* (file_check_lax: the handle is not looked at)
file_check_lax(file, open) == "pass"
file_check(file, open) ==
  IF open /\ ~file.handle THEN "raise" ELSE "pass"

\* The record of a call: what it raised ("misuse": luaL_error on a closed
\* handle, "status": raise_error_status), what it returned ("ok", or "nil_msg"
\* for nil plus message), and the calls it made on the platform handle.
Called(op, raised, result, platform) ==
  [op |-> op, raised |-> raised, result |-> result, platform |-> platform,
   dir_before |-> dirobj, file_before |-> fileobj,
   source |-> "", target |-> "", from |-> "", to |-> ""]

Misuse(op) == Called(op, "misuse", "none", 0)

\* push_status / push_error_status: true, or nil plus message.
Pushed(st) == IF st = APR_SUCCESS THEN "ok" ELSE "nil_msg"

DirInUse == dirobj.made /\ ~dirobj.collected
FileInUse == ~fileobj.collected

\* apr.dir_open(path), lines 234-263.
ApiDirOpen ==
  /\ napi < MaxCalls
  /\ ~dirobj.made /\ dirobj.pool_created = 0
  /\ \E pool_st \in {APR_SUCCESS, APR_ENOMEM} :
     \E open_st \in {APR_SUCCESS, APR_ENOENT} :
       IF pool_st # APR_SUCCESS
       THEN /\ call' = Called("dir_open", "none", Pushed(pool_st), 0)
            /\ UNCHANGED dirobj
       ELSE IF open_st # APR_SUCCESS
       THEN /\ call' = Called("dir_open", "none", Pushed(open_st), 0)
            /\ dirobj' = [dirobj EXCEPT !.pool_created = 1, !.destroys = 1]
       ELSE /\ call' = Called("dir_open", "none", "ok", 0)
            /\ dirobj' = [dirobj EXCEPT !.made = TRUE, !.handle = TRUE,
                                        !.pool_created = 1]
  /\ napi' = napi + 1
  /\ UNCHANGED <<fileobj, paths, tvars, fvars>>

\* directory:read(), lines 308-339: an entry, nothing at the end of the
\* directory, or raise_error_status when apr_dir_read fails.
ApiDirRead ==
  /\ napi < MaxCalls /\ DirInUse
  /\ IF checkdir(dirobj, TRUE) = "raise"
     THEN call' = Misuse("dir_read")
     ELSE \E r \in {"entry", "end", "error"} :
            call' = Called("dir_read", IF r = "error" THEN "status" ELSE "none",
                           IF r = "error" THEN "none" ELSE "ok", 1)
  /\ napi' = napi + 1
  /\ UNCHANGED <<dirobj, fileobj, paths, tvars, fvars>>

\* directory:entries(), lines 282-300: returns the iterator, reads nothing yet.
ApiDirEntries ==
  /\ napi < MaxCalls /\ DirInUse
  /\ IF checkdir(dirobj, TRUE) = "raise"
     THEN call' = Misuse("dir_entries")
     ELSE call' = Called("dir_entries", "none", "ok", 0)
  /\ napi' = napi + 1
  /\ UNCHANGED <<dirobj, fileobj, paths, tvars, fvars>>

\* directory:rewind(), lines 346-355.
ApiDirRewind ==
  /\ napi < MaxCalls /\ DirInUse
  /\ IF checkdir(dirobj, TRUE) = "raise"
     THEN call' = Misuse("dir_rewind")
     ELSE \E st \in {APR_SUCCESS, "EBADF"} :
            call' = Called("dir_rewind", "none", Pushed(st), 1)
  /\ napi' = napi + 1
  /\ UNCHANGED <<dirobj, fileobj, paths, tvars, fvars>>

\* directory:close(), lines 362-372.
ApiDirClose ==
  /\ napi < MaxCalls /\ DirInUse
  /\ IF checkdir(dirobj, TRUE) = "raise"
     THEN call' = Misuse("dir_close") /\ UNCHANGED dirobj
     ELSE /\ \E st \in {APR_SUCCESS, "EBADF"} :
               call' = Called("dir_close", "none", Pushed(st), 1)
          /\ dirobj' = [dirobj EXCEPT !.closes = @ + 1, !.handle = FALSE]
  /\ napi' = napi + 1
  /\ UNCHANGED <<fileobj, paths, tvars, fvars>>

\* __gc of a directory object, lines 386-399: runs once, when the object is
\* collected; the program cannot use the object afterwards.
ApiDirGc ==
  /\ napi < MaxCalls /\ DirInUse
  /\ checkdir(dirobj, FALSE) = "pass"
  /\ call' = Called("dir_gc", "none", "none", IF dirobj.handle THEN 1 ELSE 0)
  /\ dirobj' = IF dirobj.handle
               THEN [dirobj EXCEPT !.closes = @ + 1, !.destroys = @ + 1,
                                   !.handle = FALSE, !.collected = TRUE]
               ELSE [dirobj EXCEPT !.collected = TRUE]
  /\ napi' = napi + 1
  /\ UNCHANGED <<fileobj, paths, tvars, fvars>>


\* The file methods that start with file_check(L, 1, 1) and then work on
\* file->handle: lines 305-318, 346-350, 364-368, 396-439, 447-455, 478-497,
\* 505-514.
FileOps ==
  {"file_stat", "file_read", "file_write", "file_seek", "file_flush",
   "file_lock", "file_unlock"}

\* A read or write may be served by the buffer alone; the other methods
\* always reach the platform handle.
Reaches(op) == IF op \in {"file_read", "file_write"} THEN {0, 1} ELSE {1}

ApiFileCall ==
  /\ napi < MaxCalls /\ FileInUse
  /\ \E op \in FileOps :
       IF file_check(fileobj, TRUE) = "raise"
       THEN call' = Misuse(op)
       ELSE \E st \in {APR_SUCCESS, "EIO"} : \E n \in Reaches(op) :
              call' = Called(op, "none", Pushed(st), n)
  /\ napi' = napi + 1
  /\ UNCHANGED <<dirobj, fileobj, paths, tvars, fvars>>

\* file_close_real, lines 542-552: close the handle, destroy the pool and
\* forget the handle, unless that was done before.
file_close_real(file) ==
  IF file.handle
  THEN [file EXCEPT !.closes = @ + 1, !.destroys = @ + 1, !.handle = FALSE]
  ELSE file

\* file:close(), lines 523-532.
ApiFileClose ==
  /\ napi < MaxCalls /\ FileInUse
  /\ IF file_check(fileobj, TRUE) = "raise"
     THEN call' = Misuse("file_close") /\ UNCHANGED fileobj
     ELSE /\ \E st \in {APR_SUCCESS, "EIO"} :
               call' = Called("file_close", "none", Pushed(st), 1)
          /\ fileobj' = file_close_real(fileobj)
  /\ napi' = napi + 1
  /\ UNCHANGED <<dirobj, paths, tvars, fvars>>

\* __gc of a file object, lines 564-568.
ApiFileGc ==
  /\ napi < MaxCalls /\ FileInUse
  /\ file_check(fileobj, FALSE) = "pass"
  /\ call' = Called("file_gc", "none", "none", IF fileobj.handle THEN 1 ELSE 0)
  /\ fileobj' = [file_close_real(fileobj) EXCEPT !.collected = TRUE]
  /\ napi' = napi + 1
  /\ UNCHANGED <<dirobj, paths, tvars, fvars>>

\* The paths a program passes to file_copy, file_append and file_rename.
Paths == {"a", "b"}

\* line 35, line 57, line 78: target = luaL_checkstring(L, 1);
CopyTarget(arg1, arg2) == arg1
AppendTarget(arg1, arg2) == arg1
RenameTarget(arg1, arg2) == arg1

\* apr_file_copy, apr_file_append (from, to): the statuses they can return.
TransferOutcomes(from, to) ==
  IF from \notin paths THEN {APR_ENOENT} ELSE {APR_SUCCESS, "EACCES"}

\* apr_file_rename(from, to): the statuses it can return.
RenameOutcomes(from, to) ==
  IF from \notin paths THEN {APR_ENOENT} ELSE {APR_SUCCESS, "EXDEV"}

\* The record of a call that took a source and a target path.
CalledWithPaths(op, st, arg1, arg2, from, to) ==
  [Called(op, "none", Pushed(st), 0) EXCEPT
     !.source = arg1, !.target = arg2, !.from = from, !.to = to]

\* apr.file_copy(source, target), lines 28-40: the target exists afterwards.
ApiFileCopy ==
  /\ napi < MaxCalls
  /\ \E arg1 \in Paths : \E arg2 \in Paths :
       LET source == arg1
           target == CopyTarget(arg1, arg2) IN
       \E st \in TransferOutcomes(source, target) :
         /\ call' = CalledWithPaths("file_copy", st, arg1, arg2, source, target)
         /\ paths' = IF st = APR_SUCCESS THEN paths \cup {target} ELSE paths
  /\ napi' = napi + 1
  /\ UNCHANGED <<dirobj, fileobj, tvars, fvars>>

\* apr.file_append(source, target), lines 50-62.
ApiFileAppend ==
  /\ napi < MaxCalls
  /\ \E arg1 \in Paths : \E arg2 \in Paths :
       LET source == arg1
           target == AppendTarget(arg1, arg2) IN
       \E st \in TransferOutcomes(source, target) :
         /\ call' = CalledWithPaths("file_append", st, arg1, arg2, source, target)
         /\ paths' = IF st = APR_SUCCESS THEN paths \cup {target} ELSE paths
  /\ napi' = napi + 1
  /\ UNCHANGED <<dirobj, fileobj, tvars, fvars>>

\* apr.file_rename(source, target), lines 72-82.
ApiFileRename ==
  /\ napi < MaxCalls
  /\ \E arg1 \in Paths : \E arg2 \in Paths :
       LET source == arg1
           target == RenameTarget(arg1, arg2) IN
       \E st \in RenameOutcomes(source, target) :
         /\ call' = CalledWithPaths("file_rename", st, arg1, arg2, source, target)
         /\ paths' = IF st = APR_SUCCESS
                     THEN (paths \ {source}) \cup {target} ELSE paths
  /\ napi' = napi + 1
  /\ UNCHANGED <<dirobj, fileobj, tvars, fvars>>

\* A program holding an open file object, before it has opened a directory.
ApiInit ==
  /\ dirobj = NoDir /\ fileobj = OpenFile
  /\ paths \in SUBSET Paths
  /\ call = NoCall /\ napi = 0
  /\ TreeIdle
  /\ FileIdle

ApiNext ==
  \/ ApiDirOpen
  \/ ApiDirRead
  \/ ApiDirEntries
  \/ ApiDirRewind
  \/ ApiDirClose
  \/ ApiDirGc
  \/ ApiFileCall
  \/ ApiFileClose
  \/ ApiFileGc
  \/ ApiFileCopy
  \/ ApiFileAppend
  \/ ApiFileRename

SpecApi == ApiInit /\ [][ApiNext]_vars

-----------------------------------------------------------------------------
(* Properties of the tree deletion (specification Spec).                   *)

Returned == pc = "done"
PoolCreationFailed ==
  /\ pc # "create_pools"
  /\ 0 \in {outer_pool.created, middle_pool.created, inner_pool.created}
FileRemoveFailed == first_error \in {"EPERM", "EISDIR"}
FailingEntry == apr_filepath_merge(filepath, info.name)

\* C1: when delete_tree returns success, no path under the root, the root
\* included, exists any more.
C1_TreeGone ==
  (Returned /\ status = APR_SUCCESS) => Under(Root, fs) = {}

C1_Witness ==
  /\ Returned /\ status = APR_SUCCESS
  /\ {<<"r", "a", "c", "g">>, <<"r", "b">>, <<"r", "l">>} \cup RootFiles \subseteq fs0
  /\ Under(Root, fs) = {}

\* C2: the removal of a directory is never asked for while an entry below it
\* still exists, so every directory that is gone went after all its descendants.
C2_ChildrenFirst ==
  /\ premature = {}
  /\ \A d \in InsideDirs : (d \in fs0 /\ d \notin fs) => Under(d, fs) = {}

C2_Witness ==
  /\ Returned /\ status = APR_SUCCESS
  /\ {<<"r", "a", "c">>, <<"r", "b">>} \subseteq fs0
  /\ premature = {}

\* C3: delete_tree is fail-fast: once a step has failed no enumerate, file-remove
\* or directory-remove call is issued, and the status returned is that of the
\* first step that failed.
C3_FailFast ==
  /\ ~late_ops
  /\ (Returned /\ first_error # "none") => status = first_error
  /\ (Returned /\ first_error = "none") => status = APR_SUCCESS

C3_Witness ==
  /\ Returned /\ first_error = "EIO" /\ status = "EIO"
  /\ todo # <<>> /\ done # <<>>
  /\ Under(Root, fs) # {}

\* C4: at return no enumerator is open, every enumerator opened was closed
\* exactly once and every pool created was destroyed exactly once.
C4_CleanExit ==
  Returned =>
    /\ \A i \in DOMAIN handles : ~handles[i].open /\ handles[i].closes = 1
    /\ \A p \in {outer_pool, middle_pool, inner_pool} :
         p.created \in {0, 1} /\ p.destroyed = p.created

C4_Witness ==
  /\ Returned /\ first_error = APR_ENOMEM
  /\ Len(handles) = 2 /\ directory = 2
  /\ handles[2].closes = 1
  /\ inner_pool.destroyed = 1

\* C5: when one of the three pool creations fails, delete_tree returns an error
\* without having opened a directory or removed anything.
C5_PoolFailureIsHarmless ==
  PoolCreationFailed =>
    /\ handles = <<>> /\ fs = fs0
    /\ pc \in {"cleanup", "done"}
    /\ status = APR_ENOMEM

C5_Witness ==
  /\ Returned /\ PoolCreationFailed
  /\ outer_pool.created = 1 /\ middle_pool.created = 1 /\ inner_pool.created = 0
  /\ Under(Root, fs) # {Root}

\* C6: when a file removal fails, delete_tree reports that error, every
\* non-directory entry enumerated before the failing one is gone, and nothing
\* that was removed comes back.
C6_NoRollback ==
  /\ [](FileRemoveFailed =>
          /\ pc \in {"cleanup", "done"} /\ status = first_error
          /\ \A p \in enumerated \ {FailingEntry} : p \notin fs)
  /\ [][fs' \subseteq fs]_vars

C6_Witness ==
  /\ Returned /\ FileRemoveFailed
  /\ Cardinality(enumerated) >= 3
  /\ done # <<>>
  /\ FailingEntry \in fs


\* The first loop (lines 157-200) is running.
InPhase1 == pc \in {"pop_todo", "dir_read", "recurse", "remove_entry", "dir_close"}

\* C17 as stated: during the first loop every directory on done is fully
\* emptied: nothing is left below it but subdirectories, and each of those is
\* on done as well.
C17_DoneMeansEmptied ==
  InPhase1 =>
    \A i \in DOMAIN done :
      \A q \in Under(done[i], fs) \ {done[i]} :
        FileType(q) = "APR_DIR" /\ \E j \in DOMAIN done : done[j] = q

\* C17 amended: during the first loop every directory on done has lost all
\* its non-directory entries, and each of its subdirectories is waiting on
\* todo, being enumerated, or recorded on done after it.
C17_DoneMeansFilesGone ==
  InPhase1 =>
    \A i \in DOMAIN done :
      \A q \in Children(done[i], fs) :
        /\ FileType(q) = "APR_DIR"
        /\ \/ \E k \in DOMAIN todo : todo[k] = q
           \/ q = filepath
           \/ \E j \in DOMAIN done : j > i /\ done[j] = q

C17_Witness ==
  /\ InPhase1 /\ first_error = "none"
  /\ \E i \in DOMAIN done :
       /\ Children(done[i], fs0) \ Children(done[i], fs) # {}
       /\ \E q \in Children(done[i], fs) :
            /\ \E k \in DOMAIN todo : todo[k] = q
            /\ Children(q, fs) # {}

\* The root the caller named, or a real directory below it: no link, no '.'
\* or '..'.
RealSubdirectory(p) ==
  \/ p = Root
  \/ /\ IsPrefix(Root, p) /\ p \in fs0
     /\ FileType(p) = "APR_DIR"
     /\ ~filename_symbolic(Name(p))

\* C22: only the root and real directories of its subtree are ever put on the work
\* list, opened or put on the completed list; '.' and '..' are never handed
\* to file-remove; a symbolic link that is gone was removed by file-remove;
\* nothing outside the subtree of the root changes.
C22_OnlyTheSubtree ==
  /\ \A i \in DOMAIN todo : RealSubdirectory(todo[i])
  /\ \A i \in DOMAIN done : RealSubdirectory(done[i])
  /\ \A i \in DOMAIN handles : RealSubdirectory(handles[i].path)
  /\ \A p \in enumerated : ~filename_symbolic(Name(p)) /\ IsPrefix(Root, p)
  /\ \A l \in InsideLinks : (l \in fs0 /\ l \notin fs) => l \in enumerated
  /\ fs \subseteq fs0
  /\ fs0 \ fs \subseteq Under(Root, fs0)

C22_Witness ==
  /\ Returned /\ status = APR_SUCCESS
  /\ InsideLinks \cup {<<"r", "a", "c">>} \subseteq fs0
  /\ InsideLinks \subseteq enumerated
  /\ fs = OutsideNodes

\* A pool that was created and not destroyed.
Alive(p) == p.ptr # "NULL" /\ p.created = 1 /\ p.destroyed = 0

\* The two loops are running: paths are popped, merged and handed to calls.
InLoops == InPhase1 \/ pc = "pop_done"

\* C24: nothing is used after its pool was cleared or destroyed: no pool is
\* cleared or destroyed under an enumerator that is still open; while the
\* loops run the three pools, and with outer_pool every path on todo and
\* done, are alive; and the enumerator read or closed is an open one.
C24_NoUseAfterClear ==
  /\ \A i \in DOMAIN handles : ~handles[i].swept
  /\ InLoops =>
       (Alive(outer_pool) /\ Alive(middle_pool) /\ Alive(inner_pool))
  /\ pc \in {"dir_read", "recurse", "remove_entry", "dir_close"} =>
       (directory # 0 /\ handles[directory].open)
  /\ (todo # <<>> \/ done # <<>>) => (Returned \/ Alive(outer_pool))

C24_Witness ==
  /\ Returned /\ first_error = "EIO"
  /\ Len(handles) = 2 /\ directory = 2
  /\ handles[2].closes = 1 /\ ~handles[2].swept
  /\ todo # <<>> /\ done # <<>>
  /\ outer_pool.destroyed = 1 /\ middle_pool.destroyed = 1

\* The directories of the subtree of the root in the file system S.
DirsOf(S) == { p \in Under(Root, S) : FileType(p) = "APR_DIR" }

\* Directory d was opened, read to its end and closed.
EnumeratedToEnd(d) ==
  \E i \in DOMAIN handles :
    handles[i].path = d /\ ~handles[i].open /\ handles[i].pending = {}

\* C25: a step that pops done to remove a directory is taken only with todo
\* empty, no step having failed, every directory of the subtree enumerated
\* to its end and closed, and nothing but directories left; and a step of the
\* first loop that fails leaves every directory of the original tree in place.
C25_RemovalsOnlyAfterWorkList ==
  /\ [][Len(done') < Len(done) =>
          /\ todo = <<>> /\ first_error = "none"
          /\ \A d \in DirsOf(fs0) : EnumeratedToEnd(d)
          /\ Under(Root, fs) \subseteq DirsOf(fs0)]_vars
  /\ [][(InPhase1 /\ pc' = "cleanup") => DirsOf(fs0) \subseteq fs']_vars
  /\ [](DirsOf(fs0) \subseteq fs \/ todo = <<>>)

C25_Witness ==
  /\ Returned /\ first_error = "EPERM"
  /\ Cardinality(DirsOf(fs0)) = 4 /\ DirsOf(fs0) \subseteq fs
  /\ fs # fs0
  /\ Len(done) >= 2

-----------------------------------------------------------------------------
(* Termination of the call (specification SpecFair).                       *)

\* The call is one sequential C function on one thread: whenever it has a
\* next step it takes it, so the steps of Next are weakly fair.
SpecFair == Spec /\ WF_vars(Next)

\* The enumerators that were opened on directory d.
OpenedOn(d) == { i \in DOMAIN handles : handles[i].path = d }

\* The places of path d in the array arr.
PlacesIn(arr, d) == { i \in DOMAIN arr : arr[i] = d }

\* The second loop is about to run or has run, and no step has failed.
Phase1Succeeded == pc \in {"pop_done", "cleanup", "done"} /\ first_error = "none"

\* C26: the call returns; no directory is ever on todo twice, opened twice or
\* on done twice; and when no step fails every directory of the subtree was
\* opened exactly once, read to its end and closed, and (until the second
\* loop pops it to remove it) is on done exactly once.
C26_TerminatesEachDirectoryOnce ==
  /\ <>Returned
  /\ [](\A d \in DirsOf(fs0) \cup {Root} :
          /\ Cardinality(OpenedOn(d)) <= 1
          /\ Cardinality(PlacesIn(todo, d)) <= 1
          /\ Cardinality(PlacesIn(done, d)) <= 1
          /\ Cardinality(OpenedOn(d)) + Cardinality(PlacesIn(todo, d)) <= 1)
  /\ [](Phase1Succeeded =>
          /\ todo = <<>>
          /\ \A d \in DirsOf(fs0) :
               /\ Cardinality(OpenedOn(d)) = 1
               /\ EnumeratedToEnd(d)
               /\ d \in fs => Cardinality(PlacesIn(done, d)) = 1)

C26_Witness ==
  /\ Returned /\ status = APR_SUCCESS /\ first_error = "none"
  /\ Cardinality(DirsOf(fs0)) = 4
  /\ Len(handles) = 4
  /\ \A d \in DirsOf(fs0) : Cardinality(OpenedOn(d)) = 1 /\ EnumeratedToEnd(d)
  /\ Under(Root, fs) = {}

-----------------------------------------------------------------------------
(* Properties of the loop over large directories (specification SpecLarge). *)

\* C23: in the first loop the paths allocated in inner_pool since its last
\* clear never number more than 1000, however many entries the call removes
\* and in however many directories: the pool is cleared at the top of the
\* turn that follows every 1000th allocation of the whole call.
C23_InnerPoolBounded ==
  /\ inner_live <= InnerClearPeriod
  /\ pc = "remove_entry" => inner_live < InnerClearPeriod
  /\ (pc = "remove_entry" /\ allocation_counter % InnerClearPeriod = 0)
       => inner_live = 0

C23_Witness ==
  /\ pc = "dir_read" /\ first_error = "none"
  /\ allocation_counter = 2 * InnerClearPeriod
  /\ inner_live = InnerClearPeriod

-----------------------------------------------------------------------------
(* Properties of the buffered file handle (specification SpecFile).        *)

\* The last seek was file:seek(whence, off), the platform refusing nothing
\* but a negative position.
LastSeekWas(whence, off) ==
  last_seek.mode = whence /\ last_seek.offset = off /\ last_seek.fault = 0

\* Only reads came before the last seek: K bytes were read from the start.
AfterReadsOnly == last_seek.first

\* The reads since the last seek delivered the file's bytes from offset `from`
\* on, in order.
DeliveredFileFrom(from) ==
  /\ from + Len(out) <= Len(content)
  /\ out = SubSeq(content, from + 1, from + Len(out))

\* C7: after reading K bytes from the start, seek('cur', 0) returns K, the
\* logical position, whatever the descriptor's own position is.
C7_CurZeroReturnsK ==
  (AfterReadsOnly /\ LastSeekWas("cur", 0)) =>
    (last_seek.ok /\ last_seek.pos = K)

C7_Witness ==
  /\ AfterReadsOnly /\ LastSeekWas("cur", 0)
  /\ K > BufSize
  /\ last_seek.pre_os > K /\ last_seek.pre_index < last_seek.pre_limit
  /\ last_seek.ok /\ last_seek.pos = K

\* C8: after reading K bytes from the start, seek('cur', -K) returns 0 and the
\* reads that follow deliver the file's bytes from offset 0 on, in order; those
\* the buffer still covers are delivered without a read on the descriptor.
C8_RewindReplaysFile ==
  (AfterReadsOnly /\ LastSeekWas("cur", 0 - K)) =>
    /\ last_seek.ok /\ last_seek.pos = 0
    /\ DeliveredFileFrom(0)
    /\ (last_seek.pre_os = last_seek.pre_limit /\ Len(out) <= last_seek.pre_limit
          /\ ~at_eof) => raw_reads = 0

\* C9: seek('set', 0) followed by reading to the end of the file delivers
\* exactly the file's content.
C9_SetZeroThenReadAll ==
  (LastSeekWas("set", 0) /\ last_seek.ok /\ at_eof) => out = content

\* C10: two consecutive seek('cur', 0) calls both succeed and return the same
\* position.
C10_DefaultSeekKeepsPosition ==
  (LastSeekWas("cur", 0) /\ prev_seek.mode = "cur" /\ prev_seek.offset = 0
     /\ prev_seek.fault = 0 /\ prev_seek.ok)
    => (last_seek.ok /\ last_seek.pos = prev_seek.pos)

\* The window the last seek worked with: start_of_buf and end_of_buf as lines
\* 412-415 computed them from the descriptor's position and the limit.
SeekStartOfBuf == last_seek.pre_os - last_seek.pre_limit
SeekEndOfBuf == last_seek.pre_os
LandedInWindow ==
  last_seek.ok /\ SeekStartOfBuf <= last_seek.pos /\ last_seek.pos <= SeekEndOfBuf
LandedOutside ==
  last_seek.ok /\ (last_seek.pos < SeekStartOfBuf \/ last_seek.pos > SeekEndOfBuf)

\* The reads since the last seek delivered what the file holds from offset
\* `from` on, and stopped short only at the end of the file.
ReadFileFrom(from) ==
  /\ \A i \in 1..Len(out) : from + i <= Len(content) /\ out[i] = content[from + i]
  /\ at_eof => from + Len(out) >= Len(content)

\* C11: a successful seek that lands outside [start_of_buf, end_of_buf] leaves
\* index = 0 and limit = 0, and the reads that follow deliver the file's bytes
\* from the new position on, each of them fetched from the descriptor.
C11_OutsideSeekInvalidates ==
  LandedOutside =>
    /\ last_op = "seek" => (buf.index = 0 /\ buf.limit = 0)
    /\ ReadFileFrom(last_seek.pos)
    /\ Len(out) > 0 => raw_reads > 0

C11_Witness ==
  /\ LandedOutside /\ last_op = "read"
  /\ last_seek.pre_index < last_seek.pre_limit
  /\ Len(out) > 0 /\ raw_reads > 0
  /\ ReadFileFrom(last_seek.pos)

\* C12: when the position query or the translated seek fails, file:seek
\* returns the error and index and limit are what they were before the call.
C12_FailedSeekKeepsBuffer ==
  last_seek.refused =>
    /\ ~last_seek.ok
    /\ last_op = "seek" =>
         (buf.index = last_seek.pre_index /\ buf.limit = last_seek.pre_limit)

C12_Witness ==
  /\ last_seek.refused /\ last_seek.fault = 2 /\ last_op = "seek"
  /\ last_seek.pre_index > 0 /\ last_seek.pre_index < last_seek.pre_limit
  /\ buf.index = last_seek.pre_index /\ buf.limit = last_seek.pre_limit

\* The buffered bytes are the file's bytes just before the descriptor's
\* position: byte i of the buffer is the byte at offset start_of_buf + i - 1.
DescriptorEndsWindow ==
  LET start_of_buf == StartOfBuf(os_pos, buf) IN
  /\ start_of_buf >= 0
  /\ \A i \in 1..buf.limit :
       /\ start_of_buf + i <= Len(content)
       /\ buf.data[i] = content[start_of_buf + i]

\* C18: whenever a seek call can start, after any reads and earlier seeks, the
\* descriptor is just past the last buffered byte, so start_of_buf is the
\* offset of the first buffered byte and start_of_buf + index is the position
\* the caller is at.
C18_WindowEndsAtDescriptor ==
  /\ DescriptorEndsWindow
  /\ CurrentBase(os_pos, buf) = ref_pos

\* The buffered bytes are the file's bytes of one contiguous range.
BufferIsFileRange ==
  \E s \in 0..Len(content) :
    \A i \in 1..buf.limit :
      s + i <= Len(content) /\ buf.data[i] = content[s + i]

\* C19: in every state the buffer is empty or its bytes [0, limit) are the
\* file's bytes of one contiguous range, and a seek that lands outside the
\* window leaves the buffer empty.
C19_BufferMirrorsFile ==
  /\ (buf.index = 0 /\ buf.limit = 0) \/ BufferIsFileRange
  /\ (last_op = "seek" /\ LandedOutside) => (buf.index = 0 /\ buf.limit = 0)

\* The absolute position file:seek(whence, offset) asks for, 'cur' counted
\* from start_of_buf + index as line 420 does.
SeekAsked ==
  IF last_seek.mode = "set" THEN last_seek.offset
  ELSE IF last_seek.mode = "end" THEN Len(content) + last_seek.offset
  ELSE SeekStartOfBuf + last_seek.pre_index + last_seek.offset

\* C20: a successful seek whose position lies in [start_of_buf, end_of_buf],
\* both ends included, keeps the buffer: limit is unchanged, index is the
\* position minus start_of_buf, and the position returned is the absolute
\* position asked for, in each of the three modes.
C20_InWindowSeekKeepsBuffer ==
  LandedInWindow =>
    /\ last_seek.pos = SeekAsked
    /\ last_op = "seek" =>
         /\ buf.limit = last_seek.pre_limit
         /\ buf.index = last_seek.pos - SeekStartOfBuf

C20_Witness ==
  /\ LandedInWindow /\ last_op = "seek" /\ last_seek.mode = "cur"
  /\ last_seek.pre_index < last_seek.pre_limit
  /\ last_seek.pos = SeekEndOfBuf
  /\ buf.limit = last_seek.pre_limit /\ buf.index = buf.limit

\* C21: after every seek, whether it failed, kept the buffer or emptied it,
\* and after every read as well, 0 <= index <= limit.
C21_IndexWithinLimit ==
  0 <= buf.index /\ buf.index <= buf.limit

C21_Witness ==
  /\ last_op = "seek" /\ LandedInWindow
  /\ prev_seek.ok /\ prev_seek.pos # prev_seek.pre_os
  /\ 0 < buf.index /\ buf.index < buf.limit

-----------------------------------------------------------------------------
(* Properties of the directory and file objects (specification SpecApi).   *)

\* The last call was op on a directory object whose handle was closed.
OnClosedDir(op) == call.op = op /\ call.dir_before.made /\ ~call.dir_before.handle

\* The last call left both objects as they were.
ObjectsUntouched == dirobj = call.dir_before /\ fileobj = call.file_before

\* C13: whatever closes and collections a directory object goes through, its
\* enumerator is closed exactly once and its pool destroyed exactly once: never
\* twice, and both once the object has been collected.
C13_ClosedAndReleasedOnce ==
  /\ dirobj.closes <= 1 /\ dirobj.destroys <= 1
  /\ (dirobj.made /\ dirobj.collected) => (dirobj.closes = 1 /\ dirobj.destroys = 1)

\* C14 as stated: directory:close() on a closed handle is a no-op: it raises
\* nothing, makes no second apr_dir_close call and changes nothing.
C14_RecloseIsSilent ==
  OnClosedDir("dir_close") =>
    /\ call.raised = "none"
    /\ call.platform = 0 /\ ObjectsUntouched

\* C14 amended: directory:close() on a closed handle makes no second
\* apr_dir_close call and changes nothing, and it raises the closed-handle
\* error.
C14_RecloseIsRefused ==
  OnClosedDir("dir_close") =>
    /\ call.raised = "misuse" /\ call.result = "none"
    /\ call.platform = 0 /\ ObjectsUntouched
    /\ dirobj.closes = 1

C14_Witness ==
  /\ OnClosedDir("dir_close") /\ call.raised = "misuse"
  /\ dirobj.closes = 1 /\ ~dirobj.handle /\ ~dirobj.collected

\* The directory methods that need an open handle: read, entries, rewind.
OpenOnlyDirOps == {"dir_read", "dir_entries", "dir_rewind"}

\* The last call raised the closed-handle error, which is not the nil plus
\* message of an I/O failure, reached no platform handle and changed nothing.
Refused ==
  /\ call.raised = "misuse" /\ call.result = "none"
  /\ call.platform = 0
  /\ ObjectsUntouched

\* C15: read, entries and rewind on a closed directory handle, and read,
\* write, seek, flush, lock, unlock and stat on a closed file handle, raise the
\* closed-handle error instead of returning nil plus message, make no call on
\* the platform handle and leave the object as it was.
C15_ClosedHandleIsMisuse ==
  /\ (call.op \in OpenOnlyDirOps /\ call.dir_before.made
        /\ ~call.dir_before.handle) => Refused
  /\ (call.op \in FileOps /\ ~call.file_before.handle) => Refused

C15_Witness ==
  /\ call.op = "file_seek" /\ ~call.file_before.handle
  /\ fileobj.closes = 1 /\ ~fileobj.collected
  /\ Refused

\* C16: file_copy, file_append and file_rename hand their first argument to
\* the platform as the source and their second argument as the destination,
\* so a successful file_rename between two different paths leaves the file at
\* the target and not at the source.
C16_SecondArgumentIsTarget ==
  call.op \in {"file_copy", "file_append", "file_rename"} =>
    /\ call.from = call.source
    /\ call.to = call.target
    /\ (call.op = "file_rename" /\ call.result = "ok" /\ call.source # call.target)
         => (call.target \in paths /\ call.source \notin paths)

=============================================================================
